---------------------------- MODULE Spec2Model ----------------------------
(***************************************************************************)
(* Model of tts_app.preprocessors.symbols.SymbolConverter: the language-   *)
(* aware symbol-to-speech rewriter.                                         *)
(*                                                                         *)
(* A text is a sequence of characters, each character a string.  ASCII     *)
(* characters stand for themselves.  The non-ASCII characters of the       *)
(* source are written with ASCII names: "BULLET" is the bullet glyph      *)
(* U+2022, "EUR" the euro sign, "GBP" the pound sign, "RUB" the ruble     *)
(* sign, "RARROW"/"LARROW" the two arrow glyphs.  A phrase of a phrase     *)
(* table is a sequence of spaces and words; each word of a phrase is one   *)
(* element of class \w (every letter of every phrase is a \w character,    *)
(* Latin or Cyrillic), and the Russian words are transliterated.           *)
(*                                                                         *)
(* The module also models tts_app.readers.doc_reader.DOCReader.read, the   *)
(* reader of legacy Word files, with the OLE file it opens.                *)
(***************************************************************************)
EXTENDS Naturals, Sequences, FiniteSets, TLC

(***************************************************************************)
(* Bounds of the model.                                                    *)
(***************************************************************************)
\* longest input text over the marker alphabet (single-call specification)
MaxMarkerLen == 5
\* longest input text over the other alphabets (single-call specification)
MaxLen == 4
\* longest input text of the sequential multi-call specification
MaxSeqLen == 2
\* calls one caller makes in the sequential multi-call specification
MaxCalls == 2
\* calls each caller makes in the concurrent specification
MaxConcCalls == 1
\* longest input text over the operator alphabet (operator specification)
MaxOpLen == 4
\* longest input text over the amount and sum alphabets (operator specification)
MaxAmountLen == 5
\* calls of DOCReader.read in the reader specification
MaxReads == 2

(***************************************************************************)
(* The phrase tables (class attributes of SymbolConverter).                *)
(***************************************************************************)
SymbolKeys ==
    {"equals", "plus", "minus", "times", "divided_by", "percent",
     "less_than", "greater_than", "less_or_equal", "greater_or_equal",
     "not_equal", "arrow", "dollars", "euros", "pounds", "yen", "rubles",
     "at", "and", "number", "point"}

SYMBOL_MAP_EN ==
    [equals |-> <<" ", "equals", " ">>,
     plus |-> <<" ", "plus", " ">>,
     minus |-> <<" ", "minus", " ">>,
     times |-> <<" ", "times", " ">>,
     divided_by |-> <<" ", "divided", " ", "by", " ">>,
     percent |-> <<" ", "percent">>,
     less_than |-> <<" ", "less", " ", "than", " ">>,
     greater_than |-> <<" ", "greater", " ", "than", " ">>,
     less_or_equal |-> <<" ", "less", " ", "than", " ", "or", " ", "equal", " ", "to", " ">>,
     greater_or_equal |-> <<" ", "greater", " ", "than", " ", "or", " ", "equal", " ", "to", " ">>,
     not_equal |-> <<" ", "not", " ", "equal", " ", "to", " ">>,
     arrow |-> <<" ", "arrow", " ">>,
     dollars |-> <<" ", "dollars">>,
     euros |-> <<" ", "euros">>,
     pounds |-> <<" ", "pounds">>,
     yen |-> <<" ", "yen">>,
     rubles |-> <<" ", "rubles">>,
     at |-> <<" ", "at", " ">>,
     and |-> <<" ", "and", " ">>,
     number |-> <<" ", "number", " ">>,
     point |-> <<"Point", " ">>]

SYMBOL_MAP_RU ==
    [equals |-> <<" ", "ravno", " ">>,
     plus |-> <<" ", "plyus", " ">>,
     minus |-> <<" ", "minus_ru", " ">>,
     times |-> <<" ", "umnozhit", " ", "na", " ">>,
     divided_by |-> <<" ", "delit", " ", "na", " ">>,
     percent |-> <<" ", "protsentov">>,
     less_than |-> <<" ", "menshe", " ">>,
     greater_than |-> <<" ", "bolshe", " ">>,
     less_or_equal |-> <<" ", "menshe", " ", "ili", " ", "ravno", " ">>,
     greater_or_equal |-> <<" ", "bolshe", " ", "ili", " ", "ravno", " ">>,
     not_equal |-> <<" ", "ne", " ", "ravno", " ">>,
     arrow |-> <<" ", "strelka", " ">>,
     dollars |-> <<" ", "dollarov">>,
     euros |-> <<" ", "evro">>,
     pounds |-> <<" ", "funtov">>,
     yen |-> <<" ", "ien">>,
     rubles |-> <<" ", "rubley">>,
     at |-> <<" ", "sobaka", " ">>,
     and |-> <<" ", "i", " ">>,
     number |-> <<" ", "nomer", " ">>,
     point |-> <<"Punkt", " ">>]

\* the dict objects the class holds, by name
ClassDicts == [SYMBOL_MAP_EN |-> SYMBOL_MAP_EN, SYMBOL_MAP_RU |-> SYMBOL_MAP_RU]

\* LANGUAGE_MAPS: language code -> reference to a phrase table
LANGUAGE_MAPS == [ru |-> "SYMBOL_MAP_RU", en |-> "SYMBOL_MAP_EN"]

\* self._current_map.get(key, default): every default of the source is the
\* English phrase of the key
Get(map, key) == IF key \in DOMAIN map THEN map[key] ELSE SYMBOL_MAP_EN[key]

(***************************************************************************)
(* Character classes of Python's re module on str patterns.                *)
(***************************************************************************)
\* \d
Digits == {"0", "1", "2", "3", "4", "5", "6", "7", "8", "9"}
\* \s
Spaces == {" ", "\n", "\t", "\r"}
\* the words of the phrases
PhraseWords ==
    UNION {{m[k][i] : i \in DOMAIN m[k]} : <<m, k>> \in {SYMBOL_MAP_EN, SYMBOL_MAP_RU} \X SymbolKeys}
        \ {" "}
\* \w
WordChars == Digits \cup {"x", "y", "q", "_"} \cup PhraseWords
\* [.\)]
Separators == {".", ")"}
\* the bullet glyphs of the bullet pattern; "BULLET" stands for U+2022
Bullets == {"BULLET", "WBULLET", "SQBULLET", "TRIBULLET", "PTRBULLET"}

\* the index after the longest run of characters of class S that starts at i
SpanEnd(s, i, S) ==
    CHOOSE j \in i..(Len(s) + 1) :
        /\ \A k \in i..(j - 1) : s[k] \in S
        /\ (j = Len(s) + 1 \/ s[j] \notin S)

\* s[i..j-1]
Slice(s, i, j) == SubSeq(s, i, j - 1)

NoMatch == [ok |-> FALSE]

(***************************************************************************)
(* _convert_numbered_lists                                                 *)
(***************************************************************************)
\* (\d{1,3})([.\)])(\s*) at j, the longest digit count first
ListMarkerAt(s, j, lead) ==
    LET ns == {n \in 1..3 : /\ j + n <= Len(s)
                            /\ \A k \in j..(j + n - 1) : s[k] \in Digits
                            /\ s[j + n] \in Separators}
    IN IF ns = {} THEN NoMatch
       ELSE LET n == CHOOSE x \in ns : \A y \in ns : y <= x
                e == SpanEnd(s, j + n + 1, Spaces)
            IN [ok |-> TRUE, leading |-> lead, number |-> Slice(s, j, j + n),
                separator |-> s[j + n], trailing |-> Slice(s, j + n + 1, e),
                end |-> e]

\* (^|\n)(\d{1,3})([.\)])(\s*) at i: ^ matches at the start of the text only
ListMatch(s, i) ==
    LET viaStart == IF i = 1 THEN ListMarkerAt(s, i, <<>>) ELSE NoMatch
        viaNewline == IF i <= Len(s) /\ s[i] = "\n"
                      THEN ListMarkerAt(s, i + 1, <<"\n">>) ELSE NoMatch
    IN IF viaStart.ok THEN viaStart ELSE viaNewline

\* replace_numbered_point with the two separators taken for each other
replace_numbered_point_swapped(m, point_word) ==
    IF m.separator = ")"
    THEN m.leading \o point_word \o m.number \o <<".">> \o m.trailing
    ELSE m.leading \o m.number \o <<".">> \o m.trailing

\* replace_numbered_point
replace_numbered_point(m, point_word) ==
    IF m.separator = "."
    THEN m.leading \o point_word \o m.number \o <<".">> \o m.trailing
    ELSE m.leading \o m.number \o <<".">> \o m.trailing

\* one match of a pattern: where it ends and what re.sub puts in its place
Found(e, out) == [ok |-> TRUE, end |-> e, out |-> out]

\* re.sub's match of the list pattern at i, with its replacement
ListRule(s, i, point_word) ==
    LET m == ListMatch(s, i)
    IN IF m.ok THEN Found(m.end, replace_numbered_point(m, point_word)) ELSE NoMatch

(***************************************************************************)
(* _convert_math_expressions                                               *)
(***************************************************************************)
\* str.replace(old, new): the occurrence of the literal old at i
LiteralRule(s, i, old, new) ==
    IF i + Len(old) - 1 <= Len(s) /\ Slice(s, i, i + Len(old)) = old
    THEN Found(i + Len(old), new) ELSE NoMatch

\* (\w+)\s*=\s*(\w+) at i, replaced by replace_equals
EqualsRule(s, i, equals_word) ==
    LET a == SpanEnd(s, i, WordChars)
        b == SpanEnd(s, a, Spaces)
        c == SpanEnd(s, b + 1, Spaces)
        d == SpanEnd(s, c, WordChars)
    IN IF a > i /\ b <= Len(s) /\ s[b] = "=" /\ d > c
       THEN Found(d, Slice(s, i, a) \o equals_word \o Slice(s, c, d))
       ELSE NoMatch

\* (?<=\s)=(?=\s) at i
StandaloneEqualsRule(s, i, equals_word) ==
    IF /\ s[i] = "="
       /\ i > 1 /\ s[i - 1] \in Spaces
       /\ i < Len(s) /\ s[i + 1] \in Spaces
    THEN Found(i + 1, equals_word) ELSE NoMatch

\* (\d+)\s*\+\s*(\d+) at i, replaced by replace_plus
PlusRule(s, i, plus_word) ==
    LET a == SpanEnd(s, i, Digits)
        b == SpanEnd(s, a, Spaces)
        c == SpanEnd(s, b + 1, Spaces)
        d == SpanEnd(s, c, Digits)
    IN IF a > i /\ b <= Len(s) /\ s[b] = "+" /\ d > c
       THEN Found(d, Slice(s, i, a) \o plus_word \o Slice(s, c, d))
       ELSE NoMatch

\* (\d+)% at i, replaced by replace_percent
PercentRule(s, i, percent_word) ==
    LET a == SpanEnd(s, i, Digits)
    IN IF a > i /\ a <= Len(s) /\ s[a] = "%"
       THEN Found(a + 1, Slice(s, i, a) \o percent_word)
       ELSE NoMatch

(***************************************************************************)
(* _convert_standalone_symbols                                             *)
(***************************************************************************)
\* <symbol>(\d+(?:\.\d{2})?) at i, replaced by the amount and the word
CurrencyRule(s, i, symbol, word) ==
    LET a == SpanEnd(s, i + 1, Digits)
        e == IF a + 2 <= Len(s) /\ s[a] = "." /\ s[a + 1] \in Digits /\ s[a + 2] \in Digits
             THEN a + 3 ELSE a
    IN IF s[i] = symbol /\ a > i + 1
       THEN Found(e, Slice(s, i + 1, e) \o word)
       ELSE NoMatch

\* \s*[bullets]\s* at j, replaced by group 1
BulletAt(s, j, lead) ==
    LET e == SpanEnd(s, j, Spaces)
    IN IF e <= Len(s) /\ s[e] \in Bullets
       THEN Found(SpanEnd(s, e + 1, Spaces), lead)
       ELSE NoMatch

\* (^|\n)\s*[bullets]\s* at i
BulletRule(s, i) ==
    LET viaStart == IF i = 1 THEN BulletAt(s, i, <<>>) ELSE NoMatch
        viaNewline == IF s[i] = "\n" THEN BulletAt(s, i + 1, <<"\n">>) ELSE NoMatch
    IN IF viaStart.ok THEN viaStart ELSE viaNewline

\* \s+&\s+ at i
AndRule(s, i, and_word) ==
    LET a == SpanEnd(s, i, Spaces)
        b == SpanEnd(s, a + 1, Spaces)
    IN IF a > i /\ a <= Len(s) /\ s[a] = "&" /\ b > a + 1
       THEN Found(b, and_word) ELSE NoMatch

\* the number pattern with the phrase's leading space stripped
NumberRuleStripped(s, i, number_word) ==
    LET a == SpanEnd(s, i + 1, Digits)
    IN IF s[i] = "#" /\ a > i + 1
       THEN Found(a, Tail(number_word) \o Slice(s, i + 1, a))
       ELSE NoMatch

\* #(\d+) at i, replaced by replace_number
NumberRule(s, i, number_word) ==
    LET a == SpanEnd(s, i + 1, Digits)
    IN IF s[i] = "#" /\ a > i + 1
       THEN Found(a, number_word \o Slice(s, i + 1, a))
       ELSE NoMatch

\* the pattern of two space characters, no more: each pair replaced by one space
SpacesRulePairs(s, i) ==
    LET a == SpanEnd(s, i, {" "})
    IN IF a >= i + 2 THEN Found(i + 2, <<" ">>) ELSE NoMatch

\* "  +" at i (two or more space characters), replaced by one space
SpacesRule(s, i) ==
    LET a == SpanEnd(s, i, {" "})
    IN IF a >= i + 2 THEN Found(a, <<" ">>) ELSE NoMatch

(***************************************************************************)
(* re.sub and str.replace: the leftmost match, then on from its end.       *)
(***************************************************************************)
\* the match of rule r at i; p is the rule's parameter
RuleAt(r, s, i, p) ==
    CASE r = "list" -> ListRule(s, i, p)
      [] r = "literal" -> LiteralRule(s, i, p.old, p.new)
      [] r = "equals" -> EqualsRule(s, i, p)
      [] r = "standalone_equals" -> StandaloneEqualsRule(s, i, p)
      [] r = "plus" -> PlusRule(s, i, p)
      [] r = "percent" -> PercentRule(s, i, p)
      [] r = "currency" -> CurrencyRule(s, i, p.symbol, p.word)
      [] r = "bullet" -> BulletRule(s, i)
      [] r = "and" -> AndRule(s, i, p)
      [] r = "number" -> NumberRule(s, i, p)
      [] r = "spaces" -> SpacesRule(s, i)

RECURSIVE SubFrom(_, _, _, _, _)
SubFrom(r, s, i, acc, p) ==
    IF i > Len(s) THEN acc
    ELSE LET m == RuleAt(r, s, i, p)
         IN IF m.ok
            THEN SubFrom(r, s, m.end, acc \o m.out, p)
            ELSE SubFrom(r, s, i + 1, Append(acc, s[i]), p)

Sub(r, s, p) == SubFrom(r, s, 1, <<>>, p)

\* one substitution statement of a pass: a rule and its parameter
Step(r, p) == [rule |-> r, p |-> p]
\* result = result.replace(old, new)
ReplaceStep(old, new) == Step("literal", [old |-> old, new |-> new])

\* the statements of a pass, each on the result of the one before
RECURSIVE RunSteps(_, _)
RunSteps(steps, s) ==
    IF steps = <<>> THEN s
    ELSE RunSteps(Tail(steps), Sub(Head(steps).rule, s, Head(steps).p))

\* the list pass, given the words w it read from self._current_map
convert_numbered_lists(text, w) == RunSteps(<<Step("list", w.point)>>, text)

\* the math pass with the English phrase for ">=" whatever the table
convert_math_expressions_english_ge(text, w) ==
    RunSteps(<<ReplaceStep(<<">", "=">>, SYMBOL_MAP_EN.greater_or_equal),
               ReplaceStep(<<"<", "=">>, w.less_or_equal),
               ReplaceStep(<<"!", "=">>, w.not_equal),
               ReplaceStep(<<"=", "=">>, w.equals),
               Step("equals", w.equals),
               Step("standalone_equals", w.equals),
               Step("plus", w.plus),
               Step("percent", w.percent)>>, text)

\* the math pass, given the words w it read from self._current_map
convert_math_expressions(text, w) ==
    RunSteps(<<ReplaceStep(<<">", "=">>, w.greater_or_equal),
               ReplaceStep(<<"<", "=">>, w.less_or_equal),
               ReplaceStep(<<"!", "=">>, w.not_equal),
               ReplaceStep(<<"=", "=">>, w.equals),
               Step("equals", w.equals),
               Step("standalone_equals", w.equals),
               Step("plus", w.plus),
               Step("percent", w.percent)>>, text)

\* the standalone-symbol pass, given the words w it read from self._current_map
convert_standalone_symbols(text, w) ==
    RunSteps(<<Step("currency", [symbol |-> "$", word |-> w.dollars]),
               Step("currency", [symbol |-> "EUR", word |-> w.euros]),
               Step("currency", [symbol |-> "GBP", word |-> w.pounds]),
               Step("currency", [symbol |-> "RUB", word |-> w.rubles]),
               Step("bullet", <<>>),
               Step("and", w.and),
               Step("number", w.number),
               ReplaceStep(<<"RARROW">>, w.arrow),
               ReplaceStep(<<"LARROW">>, w.arrow),
               ReplaceStep(<<"-", ">">>, w.arrow),
               ReplaceStep(<<"<", "-">>, w.arrow)>>, text)

\* re.sub(r'  +', ' ', result)
collapse_spaces(text) == RunSteps(<<Step("spaces", <<>>)>>, text)

(***************************************************************************)
(* process                                                                 *)
(***************************************************************************)
\* the words each pass reads from self._current_map, in the order it reads them
PassKeys ==
    [lists |-> <<"point">>,
     math |-> <<"equals", "plus", "percent", "greater_or_equal", "less_or_equal", "not_equal">>,
     symbols |-> <<"dollars", "euros", "pounds", "rubles", "and", "number", "arrow">>]

\* the pass that follows each pass
NextPc == [lists |-> "math", math |-> "symbols", symbols |-> "cleanup"]

\* pass p on text with the words w it has read
ApplyPass(p, text, w) ==
    CASE p = "lists" -> convert_numbered_lists(text, w)
      [] p = "math" -> convert_math_expressions(text, w)
      [] p = "symbols" -> convert_standalone_symbols(text, w)

\* the words of pass p when all are read from the one table map
WordsFrom(map, p) ==
    [k \in {PassKeys[p][i] : i \in DOMAIN PassKeys[p]} |-> Get(map, k)]

\* _get_symbol_map falling back to the other table
get_symbol_map_other_default(language) ==
    IF language # "" /\ language \in DOMAIN LANGUAGE_MAPS
    THEN LANGUAGE_MAPS[language]
    ELSE "SYMBOL_MAP_RU"

\* _get_symbol_map: a reference to the table of the language, English by default
get_symbol_map(language) ==
    IF language # "" /\ language \in DOMAIN LANGUAGE_MAPS
    THEN LANGUAGE_MAPS[language]
    ELSE "SYMBOL_MAP_EN"

\* the three passes and the cleanup of process, every word read from table map
RECURSIVE RunPasses(_, _, _)
RunPasses(ps, text, map) ==
    IF ps = <<>> THEN collapse_spaces(text)
    ELSE RunPasses(Tail(ps), ApplyPass(Head(ps), text, WordsFrom(map, Head(ps))), map)

Transform(text, map) == RunPasses(<<"lists", "math", "symbols">>, text, map)

(***************************************************************************)
(* Inputs.                                                                 *)
(***************************************************************************)
\* the callers of process on the one shared SymbolConverter
Threads == {1, 2}

\* context.language; "" is None or the empty string
Hints == {"", "en", "ru", "fr"}

\* what detect_primary_language may answer
OracleAnswers == {"en", "ru", "fr"}

\* every text over alphabet A of length at most n
RECURSIVE TextsUpTo(_, _)
TextsUpTo(A, n) ==
    IF n = 0 THEN {<<>>}
    ELSE LET shorter == TextsUpTo(A, n - 1)
         IN shorter \cup {Append(s, c) : <<s, c>> \in shorter \X A}

\* list markers over several lines
MarkerAlphabet == {"1", ".", "\n"}
\* list markers within a line
ListAlphabet == {"1", ".", ")", " ", "x"}
\* equations and query strings
EqualsAlphabet == {"x", "=", "\n", " ", "?"}
\* standalone symbols
SymbolAlphabet == {"1", " ", "\n", "#", "BULLET"}
\* the first texts of a sequence of calls
SeqAlphabet == {"1", ".", ")", "x"}
\* comparison operators between words
OperatorAlphabet == {"x", "=", ">", "<", "!"}
\* currency symbols and amounts
AmountAlphabet == {"$", "EUR", "1", "."}
\* sums
SumAlphabet == {"1", "+", " ", "x"}

\* the input texts of the single-call specification
Texts ==
    TextsUpTo(MarkerAlphabet, MaxMarkerLen) \cup TextsUpTo(ListAlphabet, MaxLen)
        \cup TextsUpTo(EqualsAlphabet, MaxLen) \cup TextsUpTo(SymbolAlphabet, MaxLen)
\* the first input texts of the sequential multi-call specification
SeqTexts == TextsUpTo(SeqAlphabet, MaxSeqLen)
\* the input texts of the operator specification
OpTexts ==
    TextsUpTo(OperatorAlphabet, MaxOpLen) \cup TextsUpTo(AmountAlphabet, MaxAmountLen)
        \cup TextsUpTo(SumAlphabet, MaxAmountLen)
\* what the text extracted from a stream may be: nothing, whitespace, words
StreamTexts == {"", " ", "words"}
\* a path that names no file
MissingFile == [exists |-> FALSE]
\* a file that is not an OLE container: olefile.OleFileIO raises on it
NotOleFile == [exists |-> TRUE, is_ole |-> FALSE]
\* the OLE containers: whether they have a "WordDocument" stream, whether that
\* stream can be read (openstream or read raises on a damaged one), the text
\* _extract_text_from_word_document finds in it and the text
\* _extract_fallback_text finds in the streams
OleFiles ==
    [exists : {TRUE}, is_ole : {TRUE}, word_document : BOOLEAN, damaged : BOOLEAN,
     word_text : StreamTexts, stream_text : StreamTexts]
\* the files file_path may name
Files == {MissingFile, NotOleFile} \cup OleFiles
\* str.strip on the extracted text
strip(t) == IF t = " " THEN "" ELSE t

\* the input texts of the concurrent specification
ConcTexts == {<<"1", ".", " ", "x">>, <<"x", "=", "1">>, <<"#", "1">>}

(***************************************************************************)
(* State.                                                                  *)
(***************************************************************************)
VARIABLES
    dicts,        \* the phrase tables of the class, by name
    current_map,  \* self._current_map: a reference to a phrase table
    pc,           \* where each caller is in process
    text,         \* the text argument of each caller's call
    hint,         \* context.language of each caller's call
    detected,     \* what _detect_text_language returned in the call, "none" if not called
    language,     \* the local variable language
    result,       \* the local variable result
    words,        \* the words the running pass has read so far
    returned,     \* the calls each caller has completed, in order
    doc_pc,       \* where the caller of DOCReader.read is
    file_path,    \* the file the argument file_path names
    ole,          \* the local variable ole: "none" before it is bound
    open_files,   \* the OLE files the process holds open
    doc_text,     \* the local variable text of read
    raised,       \* the exception the last read raised, "none" if it returned
    reads         \* the calls of read made so far

\* the state of the symbol converter and its callers
symvars == <<dicts, current_map, pc, text, hint, detected, language, result, words, returned>>
\* the state of the document reader and its caller
docvars == <<doc_pc, file_path, ole, open_files, doc_text, raised, reads>>

vars == <<symvars, docvars>>

NoWords == <<>>

Init ==
    /\ dicts = ClassDicts
    /\ current_map = "SYMBOL_MAP_EN"
    /\ pc = [t \in Threads |-> "idle"]
    /\ text = [t \in Threads |-> <<>>]
    /\ hint = [t \in Threads |-> ""]
    /\ detected = [t \in Threads |-> "none"]
    /\ language = [t \in Threads |-> ""]
    /\ result = [t \in Threads |-> <<>>]
    /\ words = [t \in Threads |-> NoWords]
    /\ returned = [t \in Threads |-> <<>>]
    /\ doc_pc = "idle"
    /\ file_path = MissingFile
    /\ ole = "none"
    /\ open_files = 0
    /\ doc_text = ""
    /\ raised = "none"
    /\ reads = 0

(***************************************************************************)
(* Actions.                                                                *)
(***************************************************************************)
\* a caller enters process(txt, context) with context.language = h
Call(t, txt, h) ==
    /\ pc[t] = "idle"
    /\ pc' = [pc EXCEPT ![t] = "resolve"]
    /\ text' = [text EXCEPT ![t] = txt]
    /\ hint' = [hint EXCEPT ![t] = h]
    /\ detected' = [detected EXCEPT ![t] = "none"]
    /\ language' = [language EXCEPT ![t] = ""]
    /\ result' = [result EXCEPT ![t] = <<>>]
    /\ UNCHANGED <<dicts, current_map, words, returned, docvars>>

\* the selection of a table that keeps a table selected by an earlier call
ResolveToSticky(t, lang, answer) ==
    /\ language' = [language EXCEPT ![t] = lang]
    /\ detected' = [detected EXCEPT ![t] = answer]
    /\ current_map' = IF returned[t] = <<>> THEN get_symbol_map(lang) ELSE current_map
    /\ result' = [result EXCEPT ![t] = text[t]]
    /\ pc' = [pc EXCEPT ![t] = "lists"]
    /\ UNCHANGED <<dicts, text, hint, words, returned, docvars>>

\* the local language and the table the call selects, given the oracle's answer
ResolveTo(t, lang, answer) ==
    /\ language' = [language EXCEPT ![t] = lang]
    /\ detected' = [detected EXCEPT ![t] = answer]
    /\ current_map' = get_symbol_map(lang)
    /\ result' = [result EXCEPT ![t] = text[t]]
    /\ pc' = [pc EXCEPT ![t] = "lists"]
    /\ UNCHANGED <<dicts, text, hint, words, returned, docvars>>

\* a resolution that asks the oracle whenever the hint is not a registered code
ResolveRegistryFirst(t) ==
    /\ pc[t] = "resolve"
    /\ IF hint[t] # "" /\ hint[t] \in DOMAIN LANGUAGE_MAPS
       THEN ResolveTo(t, hint[t], "none")
       ELSE \E answer \in OracleAnswers : ResolveTo(t, answer, answer)

\* language = context.language, the oracle's answer if that is falsy; then
\* self._current_map = self._get_symbol_map(language); result = text
Resolve(t) ==
    /\ pc[t] = "resolve"
    /\ IF hint[t] # ""
       THEN ResolveTo(t, hint[t], "none")
       ELSE \E answer \in OracleAnswers : ResolveTo(t, answer, answer)

\* one self._current_map.get(...) of the running pass
LoadWord(t) ==
    /\ pc[t] \in DOMAIN PassKeys
    /\ Len(words[t]) < Len(PassKeys[pc[t]])
    /\ words' = [words EXCEPT ![t] =
                    Append(@, Get(dicts[current_map], PassKeys[pc[t]][Len(@) + 1]))]
    /\ UNCHANGED <<dicts, current_map, pc, text, hint, detected, language, result, returned, docvars>>

\* the words a pass has read, by key
Loaded(p, ws) == [k \in {PassKeys[p][i] : i \in DOMAIN PassKeys[p]} |->
                     ws[CHOOSE i \in DOMAIN PassKeys[p] : PassKeys[p][i] = k]]

\* the substitutions of the running pass, once it has read its words
RunPass(t) ==
    /\ pc[t] \in DOMAIN PassKeys
    /\ Len(words[t]) = Len(PassKeys[pc[t]])
    /\ result' = [result EXCEPT ![t] = ApplyPass(pc[t], @, Loaded(pc[t], words[t]))]
    /\ words' = [words EXCEPT ![t] = NoWords]
    /\ pc' = [pc EXCEPT ![t] = NextPc[pc[t]]]
    /\ UNCHANGED <<dicts, current_map, text, hint, detected, language, returned, docvars>>

\* a whole pass of a caller that runs alone: its reads and its substitutions
Pass(t, p) ==
    /\ pc[t] = p
    /\ result' = [result EXCEPT ![t] = ApplyPass(p, @, WordsFrom(dicts[current_map], p))]
    /\ pc' = [pc EXCEPT ![t] = NextPc[p]]
    /\ UNCHANGED <<dicts, current_map, text, hint, detected, language, words, returned, docvars>>

\* the cleanup of spaces and the return
Cleanup(t) ==
    /\ pc[t] = "cleanup"
    /\ returned' = [returned EXCEPT ![t] =
                       Append(@, [text |-> text[t], hint |-> hint[t], detected |-> detected[t],
                                  result |-> collapse_spaces(result[t])])]
    /\ pc' = [pc EXCEPT ![t] = "idle"]
    /\ UNCHANGED <<dicts, current_map, text, hint, detected, language, result, words, docvars>>

(***************************************************************************)
(* DOCReader.read                                                          *)
(***************************************************************************)
\* a caller enters read(file_path)
Read(f) ==
    /\ doc_pc \in {"idle", "done"}
    /\ reads < MaxReads
    /\ doc_pc' = "exists"
    /\ file_path' = f
    /\ ole' = "none"
    /\ doc_text' = ""
    /\ raised' = "none"
    /\ reads' = reads + 1
    /\ UNCHANGED <<open_files, symvars>>

\* an exception raised inside the try block: the except clause raises
\* ValueError from it, and read is left
RaiseInTry ==
    /\ raised' = "ValueError"
    /\ doc_pc' = "done"

\* if not file_path.exists(): raise FileNotFoundError
CheckExists ==
    /\ doc_pc = "exists"
    /\ IF file_path.exists
       THEN doc_pc' = "open" /\ UNCHANGED raised
       ELSE doc_pc' = "done" /\ raised' = "FileNotFoundError"
    /\ UNCHANGED <<file_path, ole, open_files, doc_text, reads, symvars>>

\* ole = olefile.OleFileIO(file_path)
OpenOle ==
    /\ doc_pc = "open"
    /\ IF file_path.is_ole
       THEN /\ ole' = "open"
            /\ open_files' = open_files + 1
            /\ doc_pc' = "word"
            /\ UNCHANGED raised
       ELSE RaiseInTry /\ UNCHANGED <<ole, open_files>>
    /\ UNCHANGED <<file_path, doc_text, reads, symvars>>

\* if ole.exists("WordDocument"): open the stream, read it, extract its text
ReadWordDocument ==
    /\ doc_pc = "word"
    /\ IF ~file_path.word_document
       THEN doc_pc' = "fallback" /\ UNCHANGED <<doc_text, raised>>
       ELSE IF file_path.damaged
            THEN RaiseInTry /\ UNCHANGED doc_text
            ELSE /\ doc_text' = file_path.word_text
                 /\ doc_pc' = "fallback"
                 /\ UNCHANGED raised
    /\ UNCHANGED <<file_path, ole, open_files, reads, symvars>>

\* if not text.strip(): text = self._extract_fallback_text(ole)
Fallback ==
    /\ doc_pc = "fallback"
    /\ doc_text' = IF strip(doc_text) = "" THEN file_path.stream_text ELSE doc_text
    /\ doc_pc' = "close"
    /\ UNCHANGED <<file_path, ole, open_files, raised, reads, symvars>>

\* ole.close()
CloseOle ==
    /\ doc_pc = "close"
    /\ ole' = "closed"
    /\ open_files' = open_files - 1
    /\ doc_pc' = "return"
    /\ UNCHANGED <<file_path, doc_text, raised, reads, symvars>>

\* the footnotes, the page count and return DocumentContent(...)
Return ==
    /\ doc_pc = "return"
    /\ doc_pc' = "done"
    /\ UNCHANGED <<file_path, ole, open_files, doc_text, raised, reads, symvars>>

(***************************************************************************)
(* Specifications.                                                         *)
(***************************************************************************)
\* two callers share the converter; each read of self._current_map is a step
CallConc(t) ==
    /\ pc[t] = "idle"
    /\ Len(returned[t]) < MaxConcCalls
    /\ \E txt \in ConcTexts, h \in Hints : Call(t, txt, h)

Next ==
    \E t \in Threads :
        \/ CallConc(t)
        \/ Resolve(t)
        \/ LoadWord(t)
        \/ RunPass(t)
        \/ Cleanup(t)

Spec == Init /\ [][Next]_vars

\* one caller, one call, every text
CallFn ==
    /\ pc[1] = "idle"
    /\ Len(returned[1]) = 0
    /\ \E txt \in Texts, h \in Hints : Call(1, txt, h)

ListsPass == Pass(1, "lists")
MathPass == Pass(1, "math")
SymbolsPass == Pass(1, "symbols")

NextFn == CallFn \/ Resolve(1) \/ ListsPass \/ MathPass \/ SymbolsPass \/ Cleanup(1)

SpecFn == Init /\ [][NextFn]_vars

\* one caller, calls one after the other on the same converter: any short text
\* first, then the same text again or the output of the call before
CallFirst ==
    /\ pc[1] = "idle"
    /\ Len(returned[1]) = 0
    /\ \E txt \in SeqTexts, h \in Hints : Call(1, txt, h)

CallAgain ==
    /\ pc[1] = "idle"
    /\ Len(returned[1]) \in 1..(MaxCalls - 1)
    /\ LET last == returned[1][Len(returned[1])]
       IN \E txt \in {last.text, last.result}, h \in Hints : Call(1, txt, h)

NextSeq ==
    CallFirst \/ CallAgain \/ Resolve(1) \/ ListsPass \/ MathPass \/ SymbolsPass \/ Cleanup(1)

SpecSeq == Init /\ [][NextSeq]_vars

\* one caller, one call, every text of operators, amounts and sums
CallOps ==
    /\ pc[1] = "idle"
    /\ Len(returned[1]) = 0
    /\ \E txt \in OpTexts, h \in Hints : Call(1, txt, h)

NextOps == CallOps \/ Resolve(1) \/ ListsPass \/ MathPass \/ SymbolsPass \/ Cleanup(1)

SpecOps == Init /\ [][NextOps]_vars

\* one caller of DOCReader.read, one call after the other, on any file
CallRead == \E f \in Files : Read(f)

NextDoc ==
    CallRead \/ CheckExists \/ OpenOle \/ ReadWordDocument \/ Fallback \/ CloseOle \/ Return

SpecDoc == Init /\ [][NextDoc]_vars

(***************************************************************************)
(* What the claims speak of.                                               *)
(***************************************************************************)
\* the registry of supported languages and the table of each code
Registry == {"en", "ru"}
TableOf(lang) == IF lang = "ru" THEN SYMBOL_MAP_RU ELSE SYMBOL_MAP_EN

\* the completed calls of a caller
Calls(t) == {returned[t][i] : i \in DOMAIN returned[t]}
\* the language a completed call ran with: its hint, else the oracle's answer
LanguageOf(r) == IF r.hint # "" THEN r.hint ELSE r.detected
\* what the call returns when nothing else runs
Alone(r) == Transform(r.text, TableOf(LanguageOf(r)))

HasPrefix(s, p) == Len(s) >= Len(p) /\ SubSeq(s, 1, Len(p)) = p
Count(s, c) == Cardinality({i \in DOMAIN s : s[i] = c})

\* the lines of a text
RECURSIVE SplitLines(_, _, _)
SplitLines(s, i, cur) ==
    IF i > Len(s) THEN <<cur>>
    ELSE IF s[i] = "\n" THEN <<cur>> \o SplitLines(s, i + 1, <<>>)
         ELSE SplitLines(s, i + 1, Append(cur, s[i]))
Lines(s) == SplitLines(s, 1, <<>>)

\* the digits of the list marker a line starts with, 0 if it starts with none:
\* a run of 1 to 3 digits followed by "." or ")"
MarkerLen(line) ==
    LET e == SpanEnd(line, 1, Digits)
    IN IF e - 1 \in 1..3 /\ e <= Len(line) /\ line[e] \in {".", ")"} THEN e - 1 ELSE 0
MarkerNumber(line) == SubSeq(line, 1, MarkerLen(line))
MarkerSeparator(line) == line[MarkerLen(line) + 1]
\* the line starts with a decimal number: digits, ".", digit
DecimalStart(line) ==
    LET e == SpanEnd(line, 1, Digits)
    IN e > 1 /\ e + 1 <= Len(line) /\ line[e] = "." /\ line[e + 1] \in Digits
\* a marker line as the list pass is to leave it
WordedLine(line, point_word) ==
    IF MarkerSeparator(line) = "."
    THEN point_word \o line
    ELSE MarkerNumber(line) \o <<".">> \o SubSeq(line, MarkerLen(line) + 2, Len(line))
\* the marker a first run leaves at the start of its output
LeftMarker(line, point_word) ==
    IF MarkerSeparator(line) = "."
    THEN point_word \o MarkerNumber(line) \o <<".">>
    ELSE MarkerNumber(line) \o <<".">>

\* the caller of the sequential specifications is between its list pass and
\* its math pass: result is the output of the list pass on text
AfterLists == pc[1] = "math"
PointWord == dicts[current_map].point

\* call i + 1 of the caller ran on the output of call i, in the same language
Rerun(i) ==
    /\ i \in DOMAIN returned[1] /\ i + 1 \in DOMAIN returned[1]
    /\ returned[1][i + 1].text = returned[1][i].result
    /\ TableOf(LanguageOf(returned[1][i + 1])) = TableOf(LanguageOf(returned[1][i]))

\* the text starts with "#" and digits
NumberedStart(s) == Len(s) >= 2 /\ s[1] = "#" /\ s[2] \in Digits
NumberDigits(s) == SubSeq(s, 2, SpanEnd(s, 2, Digits) - 1)

\* URL-like text: no whitespace, and every "=" stands in the query string,
\* after a "?", between two characters that are neither whitespace nor "="
UrlLike(s) ==
    /\ \A i \in DOMAIN s : s[i] \notin Spaces
    /\ \E q \in DOMAIN s :
          /\ s[q] = "?"
          /\ \A i \in DOMAIN s :
                s[i] = "=" => (q < i /\ i < Len(s) /\ s[i - 1] # "=" /\ s[i + 1] # "=")

\* the multi-character operators and the key of each one's phrase
Operators == {<<">", "=">>, <<"<", "=">>, <<"!", "=">>, <<"=", "=">>}
OperatorKey(op) ==
    CASE op = <<">", "=">> -> "greater_or_equal"
      [] op = <<"<", "=">> -> "less_or_equal"
      [] op = <<"!", "=">> -> "not_equal"
      [] op = <<"=", "=">> -> "equals"
\* an operator occurs at i
OperatorAt(s, i) == i + 1 <= Len(s) /\ <<s[i], s[i + 1]>> \in Operators
\* from i on, read left to right operator by operator, every "=" of s is the
\* second character of an operator or an "==": no single "=" is left over
RECURSIVE OnlyOperatorEquals(_, _)
OnlyOperatorEquals(s, i) ==
    IF i > Len(s) THEN TRUE
    ELSE IF OperatorAt(s, i) THEN OnlyOperatorEquals(s, i + 2)
         ELSE s[i] # "=" /\ OnlyOperatorEquals(s, i + 1)
\* s from i on with every operator replaced by its phrase of the table and
\* every other character kept
RECURSIVE OperatorsWorded(_, _, _)
OperatorsWorded(s, i, table) ==
    IF i > Len(s) THEN <<>>
    ELSE IF OperatorAt(s, i)
         THEN table[OperatorKey(<<s[i], s[i + 1]>>)] \o OperatorsWorded(s, i + 2, table)
         ELSE <<s[i]>> \o OperatorsWorded(s, i + 1, table)
\* some operator occurs in s
HasOperator(s) == \E i \in DOMAIN s : OperatorAt(s, i)

\* the currency symbols the pass rewrites and the key of each one's phrase
CurrencySymbols == {"$", "EUR", "GBP", "RUB"}
CurrencyKey(c) ==
    CASE c = "$" -> "dollars"
      [] c = "EUR" -> "euros"
      [] c = "GBP" -> "pounds"
      [] c = "RUB" -> "rubles"
\* a currency symbol immediately followed by a digit stands at i
AmountAt(s, i) == s[i] \in CurrencySymbols /\ i < Len(s) /\ s[i + 1] \in Digits
\* the index after the amount that starts at j: a digit run, with "." and two
\* digits when they follow it
AmountEnd(s, j) ==
    LET a == SpanEnd(s, j, Digits)
    IN IF a + 2 <= Len(s) /\ s[a] = "." /\ s[a + 1] \in Digits /\ s[a + 2] \in Digits
       THEN a + 3 ELSE a
\* s from i on, read once left to right: every currency symbol followed by a
\* digit dropped, its amount kept and followed by the symbol's phrase, every
\* other character kept
RECURSIVE AmountsWorded(_, _, _)
AmountsWorded(s, i, table) ==
    IF i > Len(s) THEN <<>>
    ELSE IF AmountAt(s, i)
         THEN Slice(s, i + 1, AmountEnd(s, i + 1)) \o table[CurrencyKey(s[i])]
                  \o AmountsWorded(s, AmountEnd(s, i + 1), table)
         ELSE <<s[i]>> \o AmountsWorded(s, i + 1, table)
\* the characters the other rules of the standalone-symbol pass look for
OtherSymbols == Bullets \cup {"&", "#", "RARROW", "LARROW", "-"}
\* the words of the currency phrases of a table
CurrencyWords(table) == {table[CurrencyKey(c)][2] : c \in CurrencySymbols}
\* how many characters of s are in S
CountIn(s, S) == Cardinality({i \in DOMAIN s : s[i] \in S})

\* two space characters stand next to each other in s
DoubleSpace(s) == \E i \in DOMAIN s : i < Len(s) /\ s[i] = " " /\ s[i + 1] = " "

\* the index of the "+" of a sum whose left operand ends just before i: a digit
\* before i, then optional whitespace, "+", optional whitespace and a digit;
\* 0 if there is none
SumPlusAt(s, i) ==
    LET b == SpanEnd(s, i, Spaces)
    IN IF /\ i > 1 /\ s[i - 1] \in Digits
          /\ b <= Len(s) /\ s[b] = "+"
          /\ SpanEnd(s, b + 1, Spaces) <= Len(s)
          /\ s[SpanEnd(s, b + 1, Spaces)] \in Digits
       THEN b ELSE 0
\* s from i on with every "+" between two digit runs, and the whitespace around
\* it, replaced by the plus phrase of the table, every other character kept
RECURSIVE SumsWorded(_, _, _)
SumsWorded(s, i, table) ==
    IF i > Len(s) THEN <<>>
    ELSE IF SumPlusAt(s, i) > 0
         THEN table.plus \o SumsWorded(s, SpanEnd(s, SumPlusAt(s, i) + 1, Spaces), table)
         ELSE <<s[i]>> \o SumsWorded(s, i + 1, table)

\* the file cannot be opened as an OLE file, or its "WordDocument" stream cannot
\* be read
Unreadable(f) == ~f.is_ole \/ (f.word_document /\ f.damaged)

\* the step of the caller's math pass: result is its input, result' its output
MathStep == pc[1] = "math" /\ pc'[1] = "symbols"
\* the step of the caller's standalone-symbol pass
SymbolsStep == pc[1] = "symbols" /\ pc'[1] = "cleanup"

(***************************************************************************)
(* The claims.                                                             *)
(***************************************************************************)
\* C1: whatever the interleaving of the calls of two callers on the shared
\* converter, every call returns the text it returns when run alone, every
\* pass using the table of the call's own language.  (Specification Spec.)
C1_ConcurrentCallsIsolated ==
    \A t \in Threads : \A r \in Calls(t) : r.result = Alone(r)

\* C2 as stated: with a hint that is in the registry the hint's table is used and
\* the oracle is not asked; in every other case, a hint outside the registry
\* included, the oracle is asked and the table of its answer is used.
C2_OracleUnlessRegisteredHint ==
    \A r \in Calls(1) :
        IF r.hint \in Registry
        THEN r.detected = "none" /\ r.result = Transform(r.text, TableOf(r.hint))
        ELSE r.detected \in OracleAnswers /\ r.result = Transform(r.text, TableOf(r.detected))

\* C2 as amended: with any non-empty hint the oracle is not asked and the table
\* is the hint's, the English one for a hint outside the registry; only with no
\* hint is the oracle asked, and the table of its answer is used.
C2_OracleOnlyWithoutHint ==
    \A r \in Calls(1) :
        IF r.hint # ""
        THEN r.detected = "none" /\ r.result = Transform(r.text, TableOf(r.hint))
        ELSE r.detected \in OracleAnswers /\ r.result = Transform(r.text, TableOf(r.detected))

\* C2 witness: a call with the unregistered hint "fr" has returned English
\* phrases without asking the oracle.
C2_Witness ==
    \E r \in Calls(1) :
        /\ r.hint = "fr" /\ r.detected = "none"
        /\ r.text = <<"1", ".">> /\ r.result = <<"Point", " ", "1", ".">>

\* C3: a call without a hint for which the oracle answers a code outside the
\* registry returns what a call with hint "en" on the same text returns.
\* (Specification SpecSeq: the two calls are calls of the same caller.)
C3_UnsupportedCodeIsEnglish ==
    \A i, j \in DOMAIN returned[1] :
        (/\ returned[1][i].hint = "" /\ returned[1][i].detected \notin Registry
         /\ returned[1][j].hint = "en"
         /\ returned[1][j].text = returned[1][i].text)
        => returned[1][i].result = returned[1][j].result

\* C3 witness: such a pair of calls on a text that is rewritten.
C3_Witness ==
    \E i, j \in DOMAIN returned[1] :
        /\ returned[1][i].hint = "" /\ returned[1][i].detected = "fr"
        /\ returned[1][j].hint = "en"
        /\ returned[1][j].text = returned[1][i].text
        /\ returned[1][i].text = <<"1", ".">>
        /\ returned[1][i].result = <<"Point", " ", "1", ".">>

\* C4: the list pass rewrites every line that starts with a list marker, the
\* first line and every line after a newline: "N." to the point word, N, ".",
\* and "N)" to N, ".", each followed by the rest of the line.
C4_EveryMarkerLineWorded ==
    AfterLists =>
        /\ Len(Lines(result[1])) = Len(Lines(text[1]))
        /\ \A i \in DOMAIN Lines(text[1]) :
              MarkerLen(Lines(text[1])[i]) > 0
              => Lines(result[1])[i] = WordedLine(Lines(text[1])[i], PointWord)

\* C5: the list pass rewrites nothing but list markers at the start of a line:
\* every line that starts with no marker, and every line that starts with a
\* decimal number, leaves the list pass unchanged.
C5_OnlyMarkersRewritten ==
    AfterLists =>
        /\ Len(Lines(result[1])) = Len(Lines(text[1]))
        /\ \A i \in DOMAIN Lines(text[1]) :
              (MarkerLen(Lines(text[1])[i]) = 0 \/ DecimalStart(Lines(text[1])[i]))
              => Lines(result[1])[i] = Lines(text[1])[i]

\* C6 as stated: when a call runs on the output of the call before, in the same
\* language, the marker the first run left at the start of the text, for a "."
\* marker and for a ")" marker, still starts the output of the second run.
C6_RerunKeepsMarkers ==
    \A i \in DOMAIN returned[1] :
        (Rerun(i) /\ MarkerLen(returned[1][i].text) > 0)
        => LET left == LeftMarker(returned[1][i].text, TableOf(LanguageOf(returned[1][i])).point)
           IN /\ HasPrefix(returned[1][i].result, left)
              /\ HasPrefix(returned[1][i + 1].result, left)

\* C6 as amended: the first run leaves the point word, N, "." for a "." marker
\* and N, "." for a ")" marker; the second run's output starts with the point
\* word, N, "." in both cases: the worded "." marker is kept, and the "N." left
\* for a ")" marker is rewritten once more, to the point word and "N.".
C6_RerunWordsParenMarkers ==
    \A i \in DOMAIN returned[1] :
        (Rerun(i) /\ MarkerLen(returned[1][i].text) > 0)
        => LET point_word == TableOf(LanguageOf(returned[1][i])).point
           IN /\ HasPrefix(returned[1][i].result, LeftMarker(returned[1][i].text, point_word))
              /\ HasPrefix(returned[1][i + 1].result,
                           point_word \o MarkerNumber(returned[1][i].text) \o <<".">>)

\* C6 witness: the second run has rewritten the "1." the first run left for "1)".
C6_Witness ==
    /\ Rerun(1)
    /\ returned[1][1].text = <<"1", ")">>
    /\ returned[1][1].result = <<"1", ".">>
    /\ returned[1][2].result = <<"Point", " ", "1", ".">>

\* C7: the output of a call has as many newline characters as its input.
C7_NewlinesPreserved ==
    \A r \in Calls(1) : Count(r.result, "\n") = Count(r.text, "\n")

\* C8 as stated: when "#" and digits start the text, the output starts with the
\* number word and the digits, with no leading space.
C8_NoLeadingSpace ==
    \A r \in Calls(1) :
        NumberedStart(r.text)
        => HasPrefix(r.result, Tail(TableOf(LanguageOf(r)).number) \o NumberDigits(r.text))

\* C8 as amended: when "#" and digits start the text, the output starts with
\* the whole number phrase, its leading space included, and the digits.
C8_LeadingSpaceKept ==
    \A r \in Calls(1) :
        NumberedStart(r.text)
        => HasPrefix(r.result, TableOf(LanguageOf(r)).number \o NumberDigits(r.text))

\* C8 witness: "#1" has been rewritten to " number 1".
C8_Witness ==
    \E r \in Calls(1) :
        r.text = <<"#", "1">> /\ r.result = <<" ", "number", " ", "1">>

\* C9: in a sequence of calls of one caller on one converter every call returns
\* what its arguments and the oracle's answer give on a fresh converter, every
\* pass runs with the table of the call's own language, and the tables of the
\* class are what they were.  (Specification SpecSeq.)
C9_SequentialCallsIndependent ==
    /\ dicts = ClassDicts
    /\ \A r \in Calls(1) : r.result = Alone(r)
    /\ pc[1] \in DOMAIN PassKeys => dicts[current_map] = TableOf(language[1])

\* C9 witness: a Russian call and then an English call on the same text, each
\* with the phrases of its own language.
C9_Witness ==
    /\ Len(returned[1]) = 2
    /\ returned[1][1].hint = "ru" /\ returned[1][2].hint = "en"
    /\ returned[1][1].text = <<"1", ".">> /\ returned[1][2].text = <<"1", ".">>
    /\ returned[1][1].result = <<"Punkt", " ", "1", ".">>
    /\ returned[1][2].result = <<"Point", " ", "1", ".">>

\* C10: in URL-like text (no whitespace, every "=" inside the query string with
\* a non-whitespace character on either side) every "=" of the input is a "=" of
\* the output and no equals phrase is inserted.
C10_UrlEqualsKept ==
    \A r \in Calls(1) :
        UrlLike(r.text)
        => /\ Count(r.result, "=") = Count(r.text, "=")
           /\ Count(r.result, TableOf(LanguageOf(r)).equals[2]) = 0

\* C11: the math pass rewrites every ">=", "<=", "!=" and "==" of its input to
\* the phrase of that operator in the table of the call's language (the Russian
\* phrase for "ru"), and the "=" of an operator gives no further equals phrase:
\* when every "=" of the input belongs to an operator (and the input has no "+"
\* and no "%"), the output is the input with each operator replaced by its
\* phrase, once, and nothing else changed.  (Specification SpecOps.)
C11_OperatorsWordedOnce ==
    [][(/\ MathStep
        /\ OnlyOperatorEquals(result[1], 1)
        /\ Count(result[1], "+") = 0 /\ Count(result[1], "%") = 0)
       => result'[1] = OperatorsWorded(result[1], 1, TableOf(language[1]))]_vars

\* C11 witness: the math pass of a Russian call has rewritten "x>=x" with the
\* Russian phrase.
C11_Witness ==
    /\ pc[1] = "symbols" /\ language[1] = "ru"
    /\ text[1] = <<"x", ">", "=", "x">>
    /\ result[1] = <<"x", " ", "bolshe", " ", "ili", " ", "ravno", " ", "x">>

\* C12: the standalone-symbol pass rewrites a currency symbol if and only if a
\* digit follows it immediately: the symbol is dropped, the amount (the digit
\* run, with "." and two digits when they follow) is kept and followed by the
\* symbol's phrase of the call's language; a symbol not followed by a digit is
\* kept, and there are as many currency phrases in the output as symbols
\* followed by a digit in the input.  (On inputs without the characters of
\* the other rules of the pass.  Specification SpecOps.)
C12_AmountsWorded ==
    [][(SymbolsStep /\ CountIn(result[1], OtherSymbols) = 0)
       => /\ result'[1] = AmountsWorded(result[1], 1, TableOf(language[1]))
          /\ CountIn(result'[1], CurrencyWords(TableOf(language[1])))
                = Cardinality({i \in DOMAIN result[1] : AmountAt(result[1], i)})
          /\ CountIn(result'[1], CurrencySymbols)
                = Cardinality({i \in DOMAIN result[1] :
                                 result[1][i] \in CurrencySymbols /\ ~AmountAt(result[1], i)})]_vars

\* C13: the output of a call never has two space characters next to each
\* other, whatever the text and the language, whether the spaces come from the
\* input or from the phrases put in.  (Specification SpecFn.)
C13_NoDoubleSpace ==
    \A r \in Calls(1) : ~DoubleSpace(r.result)

\* C13 witness: in "  = " the two spaces of the input and the spaces around
\* the equals phrase have been collapsed.
C13_Witness ==
    \E r \in Calls(1) :
        /\ r.text = <<" ", " ", "=", " ">>
        /\ r.result = <<" ", "equals", " ">>

\* C15: the math pass replaces every "+" that stands between two digit runs
\* (whitespace around it ignored) by the plus phrase and keeps both operands,
\* every "+" of a chain such as "1+2+3" included, and leaves every other "+"
\* as it is.  (On inputs without "=" and "%".  Specification SpecOps.)
C15_EverySumWorded ==
    [][(MathStep /\ Count(result[1], "=") = 0 /\ Count(result[1], "%") = 0)
       => result'[1] = SumsWorded(result[1], 1, TableOf(language[1]))]_vars

\* C14: when read has been left, by return or by raise: for a path that names
\* no file it raised FileNotFoundError and opened no file; for a path that
\* names a file it returned or raised ValueError, and raised ValueError if the
\* file could not be opened or extracted from; and an OLE file that was opened
\* has been closed, so that the process holds no OLE file open.
\* (Specification SpecDoc.)
C14_ReadErrorContract ==
    doc_pc = "done" =>
        /\ ~file_path.exists => (raised = "FileNotFoundError" /\ ole = "none")
        /\ file_path.exists => raised \in {"none", "ValueError"}
        /\ (file_path.exists /\ Unreadable(file_path)) => raised = "ValueError"
        /\ ole # "open"
        /\ open_files = 0

=============================================================================
